---------------------------- MODULE Spec2Model ----------------------------
(***************************************************************************)
(* A model of the voice-conversation client of KristiyanTs/pai:            *)
(*   src/audio_manager.py  AudioManager      (capture / playback engine)   *)
(*   src/ai_client.py      RealtimeAIClient  (conversation session)        *)
(*                                                                         *)
(* Every Python thread (the websocket thread, threading.Timer threads, the *)
(* outbound send loop, the playback thread, the caller of a public method) *)
(* is an element of the bag `threads`, with the function it runs and its   *)
(* position in it.  The hardware callbacks of sounddevice are actions of   *)
(* their own.  A threading.Timer guarantees only a minimum delay, so a     *)
(* pending timer is a thread at pc "timer" that may fire at any later      *)
(* step.  A `with buffer_lock:` block is one step.                         *)
(***************************************************************************)
EXTENDS Integers, Sequences, FiniteSets, Bags, TLC

----------------------------------------------------------------------------
(* Bounds of the model                                                     *)

\* audio_manager.py:27 chunk_size = 1024 (the callbacks' `frames`), scaled down
ChunkSize == 2
\* number of play_audio_data calls made on the AudioManager in SpecPlayback
MaxPlayCalls == 2
\* number of playback hardware callbacks observed in SpecPlayback
MaxCallbacks == 3
\* number of direct start_playback / stop_playback calls in SpecPlayback
MaxStartStop == 2
\* number of start_conversation calls that find the client connected
MaxStarts == 1
\* number of frames the capture callback produces
MaxFrames == 2
\* number of inbound events the link delivers
MaxEvents == 2
\* number of cancel_conversation calls
MaxCancels == 1
\* number of connect() calls
MaxConnects == 1
\* number of disconnect() calls and of links dropped by the peer
MaxDrops == 1
\* number of 0.1 s sleeps that fit in the wait bound of connect()
MaxWaits == 2
\* settings changes made by the user
MaxChanges == 2

\* presses of the voice hotkey
MaxPresses == 3

\* ConversationMemory: max_messages, and max_age_hours * 3600 in ticks of
\* the clock
max_messages == 2
max_age_seconds == 2

\* the last tick of the clock, and the longest time between two calls
MaxNow == 4
MaxWait == 2

\* add_message calls that store a message, between two clear_memory calls
MaxAdds == 3

\* the audio chunk payloads the model draws from (bytes, little-endian int16):
\* the samples 1 / -1 / 2,-32768 / 3,4,5, and an odd-sized buffer
Chunks ==
    {<<1, 0>>, <<255, 255>>, <<2, 0, 0, 128>>, <<3, 0, 4, 0, 5, 0>>, <<7>>}

\* the audio chunk payloads of the inbound events of a conversation
SessionChunks == {<<3, 0, 4, 0, 5, 0>>}

\* the messages of the inbound error events
ErrorMessages ==
    {<<"m","o","d","e","l"," ","o","v","e","r","l","o","a","d","e","d">>,
     <<"c","a","n","c","e","l","l","a","t","i","o","n"," ",
       "f","a","i","l","e","d">>,
     <<"C","a","n","c","e","l","l","a","t","i","o","n"," ",
       "F","a","i","l","e","d",":"," ","n","o"," ","r","e","s","p","o","n","s","e">>}

\* the "delta" strings of the inbound audio events: the base64 of the
\* samples 3,4,5, of the samples 1 and of 1 with a stray character, of the
\* single byte 7, a text with a wrong padding, and the empty string
Payloads ==
    {<<"A","w","A","E","A","A","U","A">>,
     <<"A","Q","A","=">>,
     <<"A","!","Q","A","=">>,
     <<"B","w","=","=">>,
     <<"B","w","=">>,
     <<>>}

----------------------------------------------------------------------------
(* Pure helpers                                                            *)

RECURSIVE Flatten(_)
Flatten(ss) == IF ss = <<>> THEN <<>> ELSE Head(ss) \o Flatten(Tail(ss))

\* base64.b64decode(s) (validate=False): the characters outside the
\* alphabet are discarded; what is left must come in groups of four, the
\* last one padded with "=", else binascii.Error is raised
B64Digits ==
    [c \in {"A", "B", "E", "Q", "U", "w"} |->
        CASE c = "A" -> 0 [] c = "B" -> 1 [] c = "E" -> 4
          [] c = "Q" -> 16 [] c = "U" -> 20 [] c = "w" -> 48]

B64Clean(text) ==
    SelectSeq(text, LAMBDA c : c \in DOMAIN B64Digits \/ c = "=")

B64Raises(text) == Len(B64Clean(text)) % 4 # 0

\* the bytes of one group of four
B64Group(g) ==
    LET val(c) == IF c = "=" THEN 0 ELSE B64Digits[c]
        v == val(g[1]) * 262144 + val(g[2]) * 4096 + val(g[3]) * 64 + val(g[4])
        all == <<v \div 65536, (v \div 256) % 256, v % 256>>
    IN  IF g[3] = "=" THEN SubSeq(all, 1, 1)
        ELSE IF g[4] = "=" THEN SubSeq(all, 1, 2)
        ELSE all

B64Decode(text) ==
    LET clean == B64Clean(text)
    IN  Flatten([k \in 1..(Len(clean) \div 4) |->
                    B64Group(SubSeq(clean, 4 * k - 3, 4 * k))])


Zeros(n) == [i \in 1..n |-> [num |-> 0, den |-> 32767]]

\* one little-endian signed 16-bit sample
Int16LE(lo, hi) ==
    LET u == lo + 256 * hi IN IF u >= 32768 THEN u - 65536 ELSE u

\* np.frombuffer(audio_bytes, dtype=np.int16) raises ValueError unless the
\* buffer size is a multiple of the element size
FromBufferRaises(bytes) == Len(bytes) % 2 # 0

FromBufferInt16(bytes) ==
    [i \in 1..(Len(bytes) \div 2) |-> Int16LE(bytes[2 * i - 1], bytes[2 * i])]

\* audio_data.astype(np.float32) / 32767.0 : the float is kept as the
\* fraction num/den (exact, and injective on int16)
ToFloat32(samples) ==
    [i \in 1..Len(samples) |-> [num |-> samples[i], den |-> 32767]]

DecodeChunk(bytes) == ToFloat32(FromBufferInt16(bytes))

----------------------------------------------------------------------------
VARIABLES
    connected, conversation_active, conversation_ending,  \* RealtimeAIClient
    link,           \* self.ws: "none", "opening", "open" or "closed"
    settings,       \* settings_manager.settings: the keys the client reads
    conversation_in_progress,   \* AIVoiceAssistant: set by the voice hotkey
    messages,       \* ConversationMemory.messages
    now,            \* time.time() at the last ConversationMemory call
    added,          \* the messages stored since the last clear_memory
    recording, playing, response_finished, input_stream,  \* AudioManager
    input_queue, output_queue, audio_buffer,
    streams,        \* the output streams: how many run, and self.output_stream
    threads,        \* bag of threads and pending timers
    ws_busy,        \* the websocket thread is inside a handler
    sent,           \* what ws.send was given, in order
    outdata,        \* what the last observed playback callback wrote
    emitted,        \* everything the observed playback callbacks wrote
    enqueued,       \* the chunks given to play_audio_data, in call order
    obs             \* counters and marks kept for the properties

clientVars == <<connected, conversation_active, conversation_ending>>
captureVars == <<recording, input_stream, input_queue>>
playVars == <<playing, response_finished, output_queue, audio_buffer>>
traceVars == <<outdata, emitted, enqueued>>
memVars == <<messages, now, added>>
appVars == <<settings, conversation_in_progress, memVars>>
vars == <<connected, conversation_active, conversation_ending, link,
          settings, conversation_in_progress, messages, now, added,
          recording, playing, response_finished, input_stream,
          input_queue, output_queue, audio_buffer, streams,
          threads, ws_busy, sent, outdata, emitted, enqueued, obs>>

----------------------------------------------------------------------------
(* SettingsManager: the texts, the voice and get_combined_instructions     *)

\* the values a text setting takes: empty, a blank, two one-letter texts
Texts == {<<>>, <<" ">>, <<"x">>, <<"y">>}

Voices == {"alloy", "echo"}

InstructionKeys == {"ai_context", "ai_personality", "custom_instructions"}

\* default_settings, its two default texts cut to one letter each
default_settings ==
    [ai_context |-> <<"x">>, ai_personality |-> <<"y">>,
     custom_instructions |-> <<>>, voice_speaker |-> "alloy"]

\* a faulty test: every value is taken
TruthyAlways(text) == TRUE

\* `if self.settings.get(key)`: a non-empty string
Truthy(text) == text # <<>>

\* " ".join(parts)
RECURSIVE Join(_)
Join(parts) ==
    IF parts = <<>> THEN <<>>
    ELSE IF Len(parts) = 1 THEN parts[1]
    ELSE parts[1] \o <<" ">> \o Join(Tail(parts))

get_combined_instructions(st) ==
    Join(SelectSeq(<<st.ai_context, st.ai_personality,
                     st.custom_instructions>>, Truthy))

\* `not custom_instructions.strip()`
IsBlank(text) == \A i \in 1..Len(text) : text[i] = " "

\* the fallback text of _on_open and _update_session_instructions, cut to
\* one word
FallbackInstructions == <<"f", "a", "l", "l", "b", "a", "c", "k">>

\* the "instructions" of a session.update built from the settings `st`
SessionInstructions(st) ==
    IF IsBlank(get_combined_instructions(st))
    THEN FallbackInstructions
    ELSE get_combined_instructions(st)

----------------------------------------------------------------------------
(* Threads                                                                 *)

NoFrame == [id |-> 0, gen |-> 0]

\* a thread: the function it runs, where it is, the thread hosting it ("ws":
\* the websocket thread, "own": a thread of its own), who called it, the
\* turn it was issued in, the turn it passed its guard in, the frame it
\* holds, whether chunks were still queued for playback when it was called,
\* the sleeps it has made
Thread(fn, pc) ==
    [fn |-> fn, pc |-> pc, host |-> "own", via |-> "-",
     issued |-> 0, passed |-> 0, frame |-> NoFrame, unplayed |-> FALSE,
     polls |-> 0]

Spawn(bag, t) == bag (+) SetToBag({t})
Kill(bag, t) == bag (-) SetToBag({t})
Move(bag, t, u) == (bag (-) SetToBag({t})) (+) SetToBag({u})

Running(fn) == {t \in BagToSet(threads) : t.fn = fn}
At(fn, pc) == {t \in BagToSet(threads) : t.fn = fn /\ t.pc = pc}

----------------------------------------------------------------------------
(* State after construction: RealtimeAIClient.__init__ and                 *)
(* AudioManager.__init__                                                   *)

Init ==
    /\ connected = FALSE
    /\ conversation_active = FALSE
    /\ conversation_ending = FALSE
    /\ link = "none"
    /\ settings = default_settings
    /\ conversation_in_progress = FALSE
    /\ messages = <<>>
    /\ now = 0
    /\ added = <<>>
    /\ recording = FALSE
    /\ playing = FALSE
    /\ response_finished = FALSE
    /\ input_stream = FALSE
    /\ input_queue = <<>>
    /\ output_queue = <<>>
    /\ audio_buffer = <<>>
    /\ streams = [running |-> 0, ref |-> "none"]
    /\ threads = EmptyBag
    /\ ws_busy = FALSE
    /\ sent = <<>>
    /\ outdata = <<>>
    /\ emitted = <<>>
    /\ enqueued = <<>>
    /\ obs = [turn |-> 0, nframes |-> 0, nevents |-> 0, ncancel |-> 0,
              stop_rec |-> 0, stop_play |-> 0, hides |-> 0, natural |-> FALSE,
              ignored |-> FALSE, fresh |-> {},
              refused |-> FALSE, degraded |-> FALSE,
              nconnect |-> 0, ndrop |-> 0, ndisc |-> 0, rc |-> "-",
              quiet |-> FALSE, nchange |-> 0, ndropped |-> 0,
              npress |-> 0, blank |-> FALSE,
              nplay |-> 0, ncb |-> 0, ncalls |-> 0,
              mixed |-> FALSE, raised |-> FALSE]

----------------------------------------------------------------------------
(* AudioManager: playback                                                  *)

\* start_playback: returns at once when already playing; else clears the
\* accumulator and the flag under the lock, empties output_queue, sets
\* playing and starts playback_thread (in the bag `bag`)
StartPlayback(bag) ==
    IF playing
    THEN /\ UNCHANGED playVars
         /\ threads' = bag
    ELSE /\ audio_buffer' = <<>>
         /\ response_finished' = FALSE
         /\ output_queue' = <<>>
         /\ playing' = TRUE
         /\ threads' = Spawn(bag, Thread("playback_thread", "open"))

\* stop_playback: clears playing, the accumulator (under the lock) and
\* output_queue
StopPlayback ==
    /\ playing' = FALSE
    /\ audio_buffer' = <<>>
    /\ output_queue' = <<>>
    /\ UNCHANGED response_finished

\* a faulty put: the chunk goes to the head of the queue
PlayAudioDataInFront(bytes) ==
    output_queue' = <<bytes>> \o output_queue

\* play_audio_data: output_queue.put(audio_bytes)
PlayAudioData(bytes) ==
    output_queue' = Append(output_queue, bytes)

\* a faulty drain: it puts each new chunk in front of the accumulator
RECURSIVE DrainInFront(_, _)
DrainInFront(buffer, queue) ==
    IF queue = <<>> THEN [buffer |-> buffer, queue |-> <<>>, raised |-> FALSE]
    ELSE IF FromBufferRaises(Head(queue))
         THEN [buffer |-> buffer, queue |-> Tail(queue), raised |-> TRUE]
         ELSE DrainInFront(DecodeChunk(Head(queue)) \o buffer, Tail(queue))

\* the drain loop of the playback callback: chunks are taken in queue order
\* and appended to the accumulator until the queue is empty or np.frombuffer
\* raises (the chunk that raised is already off the queue)
RECURSIVE Drain(_, _)
Drain(buffer, queue) ==
    IF queue = <<>> THEN [buffer |-> buffer, queue |-> <<>>, raised |-> FALSE]
    ELSE IF FromBufferRaises(Head(queue))
         THEN [buffer |-> buffer, queue |-> Tail(queue), raised |-> TRUE]
         ELSE Drain(buffer \o DecodeChunk(Head(queue)), Tail(queue))

\* a faulty fill: the underrun branch forgets to empty the accumulator
FillKeepsBuffer(buffer, frames) ==
    IF Len(buffer) >= frames
    THEN [out |-> SubSeq(buffer, 1, frames),
          rest |-> SubSeq(buffer, frames + 1, Len(buffer))]
    ELSE IF Len(buffer) > 0
         THEN [out |-> buffer \o Zeros(frames - Len(buffer)), rest |-> buffer]
         ELSE [out |-> Zeros(frames), rest |-> <<>>]

\* the fill of outdata from the accumulator `buffer`: what is written and
\* what stays
Fill(buffer, frames) ==
    IF Len(buffer) >= frames
    THEN [out |-> SubSeq(buffer, 1, frames),
          rest |-> SubSeq(buffer, frames + 1, Len(buffer))]
    ELSE IF Len(buffer) > 0
         THEN [out |-> buffer \o Zeros(frames - Len(buffer)), rest |-> <<>>]
         ELSE [out |-> Zeros(frames), rest |-> <<>>]

\* `if self.output_stream: stop(); close(); self.output_stream = None` in the
\* `finally` of playback_thread: closes the stream opened last, whichever
\* thread opened it
CloseOutputStream ==
    streams' = [running |-> IF streams.ref = "running"
                            THEN streams.running - 1 ELSE streams.running,
                ref |-> "none"]

\* playback_thread opens the output stream (sd.OutputStream(...).start());
\* when that raises, the thread goes to `finally` and ends
PlaybackThreadOpen ==
    \E t \in At("playback_thread", "open"), ok \in BOOLEAN :
        /\ IF ok
           THEN /\ threads' = Move(threads, t, [t EXCEPT !.pc = "alive"])
                /\ streams' = [running |-> streams.running + 1, ref |-> "running"]
           ELSE /\ threads' = Kill(threads, t)
                /\ CloseOutputStream
        /\ UNCHANGED <<clientVars, link, appVars, captureVars, playVars,
                       ws_busy, sent, traceVars, obs>>

\* playback_thread leaves `while self.playing` and runs its `finally`
PlaybackThreadExit ==
    \E t \in At("playback_thread", "alive") :
        /\ ~playing
        /\ threads' = Kill(threads, t)
        /\ CloseOutputStream
        /\ UNCHANGED <<clientVars, link, appVars, captureVars, playVars,
                       ws_busy, sent, traceVars, obs>>

\* start_playback.playback_thread.audio_callback(outdata, frames, ...), run
\* by a running output stream.  When the drain raises, outdata is not
\* written and the exception leaves the callback: the stream is aborted or
\* goes on, as the audio library decides.  `observe`: the properties keep
\* what was written.
AudioCallback(frames, observe) ==
    /\ streams.running > 0
    /\ LET d == Drain(audio_buffer, output_queue)
           f == Fill(d.buffer, frames)
       IN  /\ output_queue' = d.queue
           /\ IF d.raised
              THEN /\ audio_buffer' = d.buffer
                   /\ UNCHANGED <<outdata, emitted>>
                   /\ \E aborts \in BOOLEAN :
                        streams' =
                          IF ~aborts THEN streams
                          ELSE [running |-> streams.running - 1,
                                ref |-> IF streams.ref = "running"
                                           /\ streams.running = 1
                                        THEN "aborted" ELSE streams.ref]
              ELSE /\ audio_buffer' = f.rest
                   /\ outdata' = IF observe THEN f.out ELSE outdata
                   /\ emitted' = IF observe THEN emitted \o f.out ELSE emitted
                   /\ UNCHANGED streams
           /\ obs' = [obs EXCEPT !.ncb = IF observe THEN @ + 1 ELSE @,
                                 !.raised = @ \/ (observe /\ d.raised)]
    /\ UNCHANGED <<clientVars, link, appVars, captureVars, playing,
                   response_finished, threads, ws_busy, sent, enqueued>>

----------------------------------------------------------------------------
(* The playback half of the AudioManager driven directly by its caller,    *)
(* with everything written by the callbacks kept                           *)

CallStartPlayback ==
    /\ obs.ncalls < MaxStartStop
    /\ StartPlayback(threads)
    /\ IF playing
       THEN UNCHANGED traceVars /\ obs' = [obs EXCEPT !.ncalls = @ + 1]
       ELSE /\ outdata' = <<>>
            /\ emitted' = <<>>
            /\ enqueued' = <<>>
            /\ obs' = [obs EXCEPT !.ncalls = @ + 1, !.mixed = FALSE,
                                  !.raised = FALSE]
    /\ UNCHANGED <<clientVars, link, appVars, captureVars, streams, ws_busy,
                   sent>>

CallStopPlayback ==
    /\ obs.ncalls < MaxStartStop
    /\ StopPlayback
    /\ outdata' = <<>>
    /\ emitted' = <<>>
    /\ enqueued' = <<>>
    /\ obs' = [obs EXCEPT !.ncalls = @ + 1, !.mixed = FALSE, !.raised = FALSE]
    /\ UNCHANGED <<clientVars, link, appVars, captureVars, streams, threads,
                   ws_busy, sent>>

CallPlayAudioData ==
    \E bytes \in Chunks :
        /\ obs.nplay < MaxPlayCalls
        /\ PlayAudioData(bytes)
        /\ enqueued' = Append(enqueued, bytes)
        /\ obs' = [obs EXCEPT !.nplay = @ + 1, !.mixed = @ \/ emitted # <<>>]
        /\ UNCHANGED <<clientVars, link, appVars, captureVars, playing,
                       response_finished, audio_buffer, streams, threads,
                       ws_busy, sent, outdata, emitted>>

ObservedCallback ==
    /\ obs.ncb < MaxCallbacks
    /\ AudioCallback(ChunkSize, TRUE)

NextPlayback ==
    \/ CallStartPlayback
    \/ CallStopPlayback
    \/ CallPlayAudioData
    \/ PlaybackThreadOpen
    \/ PlaybackThreadExit
    \/ ObservedCallback

SpecPlayback == Init /\ [][NextPlayback]_vars

(* start_playback and stop_playback statement by statement, against the   *)
(* callbacks of a stream that is still running.  Nothing is forgotten at a *)
(* stop or a start: emitted and enqueued keep the whole run, and           *)
(* obs.ndropped counts the samples that a stop or a start threw away.      *)

\* stop_playback, up to the end of its locked block: playing = False; the
\* accumulator is replaced by an empty one
StopPlaybackClear ==
    /\ obs.ncalls < MaxStartStop
    /\ playing' = FALSE
    /\ audio_buffer' = <<>>
    /\ threads' = Spawn(threads, Thread("stop_playback", "flush"))
    /\ obs' = [obs EXCEPT !.ncalls = @ + 1,
                          !.ndropped = @ + Len(audio_buffer)]
    /\ UNCHANGED <<clientVars, link, appVars, captureVars, response_finished,
                   output_queue, streams, ws_busy, sent, traceVars>>

\* start_playback, up to the end of its locked block: `if self.playing:
\* return`; the accumulator is replaced by an empty one and
\* response_finished is cleared
StartPlaybackClear ==
    /\ obs.ncalls < MaxStartStop
    /\ IF playing
       THEN UNCHANGED <<audio_buffer, response_finished, threads>>
       ELSE /\ audio_buffer' = <<>>
            /\ response_finished' = FALSE
            /\ threads' = Spawn(threads, Thread("start_playback", "flush"))
    /\ obs' = [obs EXCEPT !.ncalls = @ + 1,
                          !.ndropped = IF playing THEN @
                                       ELSE @ + Len(audio_buffer)]
    /\ UNCHANGED <<clientVars, link, appVars, captureVars, playing,
                   output_queue, streams, ws_busy, sent, traceVars>>

\* `while not self.output_queue.empty(): self.output_queue.get_nowait()` of
\* either function, one chunk at a time; once the queue is empty
\* stop_playback returns, and start_playback sets playing and starts
\* playback_thread
PlaybackFlush ==
    \E t \in At("stop_playback", "flush") \cup At("start_playback", "flush") :
        /\ IF output_queue # <<>>
           THEN /\ output_queue' = Tail(output_queue)
                /\ obs' = [obs EXCEPT !.ndropped =
                               @ + (IF FromBufferRaises(Head(output_queue))
                                    THEN 0
                                    ELSE Len(DecodeChunk(Head(output_queue))))]
                /\ UNCHANGED <<playing, threads>>
           ELSE /\ playing' = (playing \/ t.fn = "start_playback")
                /\ threads' = IF t.fn = "start_playback"
                              THEN Move(threads, t,
                                        Thread("playback_thread", "open"))
                              ELSE Kill(threads, t)
                /\ UNCHANGED <<output_queue, obs>>
        /\ UNCHANGED <<clientVars, link, appVars, captureVars,
                       response_finished, audio_buffer, streams, ws_busy,
                       sent, traceVars>>

NextAccounting ==
    \/ StartPlaybackClear
    \/ StopPlaybackClear
    \/ PlaybackFlush
    \/ CallPlayAudioData
    \/ PlaybackThreadOpen
    \/ PlaybackThreadExit
    \/ ObservedCallback

SpecAccounting == Init /\ [][NextAccounting]_vars

----------------------------------------------------------------------------
(* AudioManager: capture                                                   *)

\* a faulty start_recording: a failed open leaves recording set
StartRecordingStaysOn(ok) ==
    IF recording
    THEN UNCHANGED <<recording, input_stream>>
    ELSE /\ recording' = TRUE
         /\ input_stream' = ok

\* start_recording: returns at once when already recording; else sets
\* recording and opens the input stream; when the open raises, recording is
\* cleared again and no stream exists
StartRecording(ok) ==
    IF recording
    THEN UNCHANGED <<recording, input_stream>>
    ELSE /\ recording' = ok
         /\ input_stream' = ok

\* a faulty stop_recording: it clears the flag and leaves the stream open
StopRecordingLeavesStream ==
    /\ recording' = FALSE
    /\ input_stream' = input_stream

\* stop_recording: clears recording, stops and closes the input stream
StopRecording ==
    /\ recording' = FALSE
    /\ input_stream' = FALSE

\* start_recording.audio_callback, run by the open input stream: converts
\* the period and puts one frame on input_queue while recording.  A frame
\* carries its number and the count of start_conversation calls begun when
\* it was pushed.
CaptureCallback ==
    /\ input_stream
    /\ obs.nframes < MaxFrames
    /\ input_queue' = IF recording
                      THEN Append(input_queue,
                                  [id |-> obs.nframes + 1, gen |-> obs.turn])
                      ELSE input_queue
    /\ obs' = [obs EXCEPT !.nframes = @ + 1]
    /\ UNCHANGED <<clientVars, link, appVars, recording, input_stream,
                   playVars, streams, threads, ws_busy, sent, traceVars>>

----------------------------------------------------------------------------
(* The capture half of the AudioManager driven directly by its caller      *)

CallStartRecording ==
    \E ok \in BOOLEAN :
        /\ obs.ncalls < MaxStartStop + MaxStartStop
        /\ StartRecording(ok)
        /\ obs' = [obs EXCEPT !.ncalls = @ + 1]
        /\ UNCHANGED <<clientVars, link, appVars, input_queue, playVars,
                       streams, threads, ws_busy, sent, traceVars>>

CallStopRecording ==
    /\ obs.ncalls < MaxStartStop + MaxStartStop
    /\ StopRecording
    /\ obs' = [obs EXCEPT !.ncalls = @ + 1, !.stop_rec = @ + 1]
    /\ UNCHANGED <<clientVars, link, appVars, input_queue, playVars,
                   streams, threads, ws_busy, sent, traceVars>>

\* get_audio_data: input_queue.get_nowait(), None when the queue is empty
CallGetAudioData ==
    /\ input_queue # <<>>
    /\ input_queue' = Tail(input_queue)
    /\ UNCHANGED <<clientVars, link, appVars, recording, input_stream,
                   playVars, streams, threads, ws_busy, sent, traceVars, obs>>

NextCapture ==
    \/ CallStartRecording
    \/ CallStopRecording
    \/ CaptureCallback
    \/ CallGetAudioData
    \/ CallPlayAudioData

SpecCapture == Init /\ [][NextCapture]_vars

----------------------------------------------------------------------------
(* RealtimeAIClient: the link                                              *)

\* ws.send(json.dumps(event)) appends to what the link carried; on a link
\* that is not open it raises
CanSend == link = "open"
Msg(type) ==
    [type |-> type, frame |-> NoFrame, after |-> 0, instructions |-> <<>>]

\* the session.update event built from the settings `st`
SessionUpdate(st) ==
    [Msg("session.update") EXCEPT !.instructions = SessionInstructions(st)]

\* connect(): creates the WebSocketApp and starts its thread
Connect ==
    /\ link = "none"
    /\ link' = "opening"
    /\ UNCHANGED <<appVars, clientVars, captureVars, playVars, streams,
                   threads, ws_busy, sent, traceVars, obs>>

\* _on_open: sets connected and sends session.update
OnOpen ==
    /\ link = "opening"
    /\ link' = "open"
    /\ connected' = TRUE
    /\ sent' = Append(sent, SessionUpdate(settings))
    /\ UNCHANGED <<appVars, conversation_active, conversation_ending,
                   captureVars, playVars, streams, threads, ws_busy, traceVars,
                   obs>>

----------------------------------------------------------------------------
(* RealtimeAIClient.start_conversation, run by the thread of               *)
(* _handle_conversation (one at a time: on_hotkey_pressed refuses a press  *)
(* while conversation_in_progress)                                         *)

\* the number of start_conversation calls that have returned True
StartsDone == obs.turn - Cardinality(Running("start_conversation"))

\* a faulty guard: the call goes on without a connection
MayStartAlways == TRUE

\* `if not self.connected: return False` lets the call go on
MayStart == connected

\* the call: `if not self.connected: return False`; then
\* conversation_ending = False; conversation_active = True.  `limit` bounds
\* the calls that find the client connected.
StartConversationBy(bag, limit) ==
    /\ Running("start_conversation") = {}
    /\ obs.turn < limit
    /\ IF MayStart
       THEN /\ conversation_ending' = FALSE
            /\ conversation_active' = TRUE
            /\ threads' = Spawn(bag, Thread("start_conversation", "flush"))
            /\ obs' = [obs EXCEPT !.turn = @ + 1,
                                  !.stop_rec = 0, !.stop_play = 0, !.hides = 0,
                                  !.natural = FALSE, !.ignored = FALSE,
                                  !.refused = FALSE, !.degraded = FALSE,
                                  !.quiet = TRUE,
                                  !.fresh = IF conversation_active
                                            THEN @ ELSE @ \cup {obs.turn + 1}]
       ELSE /\ obs' = [obs EXCEPT !.refused = TRUE]
            /\ threads' = bag
            /\ UNCHANGED <<conversation_ending, conversation_active>>
    /\ UNCHANGED <<connected, link, settings, memVars, captureVars, playVars,
                   streams, ws_busy, sent, traceVars>>

\* start_conversation() called directly
StartConversation(limit) ==
    /\ StartConversationBy(threads, limit)
    /\ UNCHANGED conversation_in_progress

\* while not input_queue.empty(): input_queue.get_nowait(); once empty,
\* ws.send(input_audio_buffer.clear), an exception of it caught
StartFlush ==
    \E t \in At("start_conversation", "flush") :
        /\ IF input_queue # <<>>
           THEN /\ input_queue' = Tail(input_queue)
                /\ UNCHANGED <<threads, sent>>
           ELSE /\ threads' = Move(threads, t, [t EXCEPT !.pc = "audio"])
                /\ sent' = IF CanSend
                           THEN Append(sent, Msg("input_audio_buffer.clear"))
                           ELSE sent
                /\ UNCHANGED input_queue
        /\ UNCHANGED <<clientVars, link, appVars, recording, input_stream,
                       playVars, streams, ws_busy, traceVars, obs>>

\* audio_manager.start_recording(); audio_manager.start_playback(); the
\* _send_audio_loop thread is started; return True.  `oks`: whether the
\* input device opens.
StartAudio(oks) ==
    \E t \in At("start_conversation", "audio"), ok \in oks :
        /\ StartRecording(ok)
        /\ StartPlayback(Move(threads, t,
                              [Thread("send_audio_loop", "while")
                                  EXCEPT !.issued = obs.turn]))
        /\ obs' = [obs EXCEPT !.quiet = FALSE,
                              !.degraded = @ \/ (~recording /\ ~ok)]
        /\ UNCHANGED <<clientVars, link, appVars, input_queue, streams,
                       ws_busy, sent, traceVars>>

----------------------------------------------------------------------------
(* RealtimeAIClient._send_audio_loop                                       *)

\* while self.conversation_active and self.connected
LoopTest ==
    \E t \in At("send_audio_loop", "while") :
        /\ threads' = IF conversation_active /\ connected
                      THEN Move(threads, t, [t EXCEPT !.pc = "pop"])
                      ELSE Kill(threads, t)
        /\ UNCHANGED <<clientVars, link, appVars, captureVars, playVars,
                       streams, ws_busy, sent, traceVars, obs>>

\* if recording: audio_data = get_audio_data() (a get_nowait, None when the
\* queue is empty); without a frame the loop sleeps and tests again
LoopPop ==
    \E t \in At("send_audio_loop", "pop") :
        /\ IF recording /\ input_queue # <<>>
           THEN /\ input_queue' = Tail(input_queue)
                /\ threads' = Move(threads, t,
                                   [t EXCEPT !.pc = "send",
                                             !.frame = Head(input_queue)])
           ELSE /\ threads' = Move(threads, t, [t EXCEPT !.pc = "while"])
                /\ UNCHANGED input_queue
        /\ UNCHANGED <<clientVars, link, appVars, recording, input_stream,
                       playVars, streams, ws_busy, sent, traceVars, obs>>

\* ws.send(input_audio_buffer.append); an exception of it ends the thread
LoopSend ==
    \E t \in At("send_audio_loop", "send") :
        /\ IF CanSend
           THEN /\ sent' = Append(sent,
                                  [Msg("input_audio_buffer.append")
                                      EXCEPT !.frame = t.frame,
                                             !.after = StartsDone])
                /\ threads' = Move(threads, t, [t EXCEPT !.pc = "while",
                                                         !.frame = NoFrame])
           ELSE /\ threads' = Kill(threads, t)
                /\ UNCHANGED sent
        /\ UNCHANGED <<clientVars, link, appVars, captureVars, playVars,
                       streams, ws_busy, traceVars, obs>>

----------------------------------------------------------------------------
(* Ending a turn: _end_conversation and cancel_conversation                *)

\* a function called on the websocket thread returns to run_forever
Return(bag, t) ==
    /\ threads' = Kill(bag, t)
    /\ ws_busy' = IF t.host = "ws" THEN FALSE ELSE ws_busy

InBody(t) == t.pc \in {"flags", "stoprec", "stopplay"}

\* `if self.conversation_ending: return`, first statement of
\* _end_conversation, also when a Timer(2.0) runs it
EndGuard ==
    \E t \in At("end_conversation", "timer") \cup At("end_conversation", "guard") :
        /\ IF conversation_ending
           THEN Return(threads, t)
           ELSE /\ threads' = Move(threads, t, [t EXCEPT !.pc = "flags",
                                                         !.passed = obs.turn])
                /\ UNCHANGED ws_busy
        /\ UNCHANGED <<clientVars, link, appVars, captureVars, playVars,
                       streams, sent, traceVars, obs>>

\* cancel_conversation is called: `if not self.conversation_active: return`
CancelConversation ==
    /\ obs.ncancel < MaxCancels
    /\ threads' = IF conversation_active
                  THEN Spawn(threads,
                             [Thread("cancel_conversation", "flags")
                                 EXCEPT !.via = "user", !.issued = obs.turn,
                                        !.passed = obs.turn])
                  ELSE threads
    /\ obs' = [obs EXCEPT !.ncancel = @ + 1]
    /\ UNCHANGED <<clientVars, link, appVars, captureVars, playVars, streams,
                   ws_busy, sent, traceVars>>

\* self.voice_assistant: whether the client was given the reference.
\* AIVoiceAssistant.__init__ constructs its client without one.
voice_assistant == FALSE

\* conversation_ending = True; conversation_active = False; `if
\* self.voice_assistant: self.voice_assistant.conversation_in_progress =
\* False`
EndFlags(fn) ==
    \E t \in At(fn, "flags") :
        /\ conversation_ending' = TRUE
        /\ conversation_active' = FALSE
        /\ conversation_in_progress' =
               IF voice_assistant THEN FALSE ELSE conversation_in_progress
        /\ threads' = Move(threads, t, [t EXCEPT !.pc = "stoprec"])
        /\ UNCHANGED <<connected, link, settings, memVars, captureVars,
                       playVars, streams, ws_busy, sent, traceVars, obs>>

\* audio_manager.stop_recording()
EndStopRecording(fn) ==
    \E t \in At(fn, "stoprec") :
        /\ StopRecording
        /\ threads' = Move(threads, t, [t EXCEPT !.pc = "stopplay"])
        /\ obs' = [obs EXCEPT !.stop_rec = IF @ < 2 THEN @ + 1 ELSE @]
        /\ UNCHANGED <<clientVars, link, appVars, input_queue, playVars,
                       streams, ws_busy, sent, traceVars>>

\* audio_manager.stop_playback(); (cancel only: ws.send(response.cancel), an
\* exception of it caught); overlay.hide_overlay(); Timer(1.0) to clear
\* conversation_ending; return
EndStopPlayback(fn) ==
    \E t \in At(fn, "stopplay") :
        /\ StopPlayback
        /\ sent' = IF fn = "cancel_conversation" /\ CanSend
                   THEN Append(sent, Msg("response.cancel")) ELSE sent
        /\ Return(Spawn(threads, [Thread("reset_ending", "timer")
                                     EXCEPT !.issued = t.passed]), t)
        /\ obs' = [obs EXCEPT !.stop_play = IF @ < 2 THEN @ + 1 ELSE @,
                              !.hides = IF @ < 2 THEN @ + 1 ELSE @,
                              !.natural = @ \/ (t.via = "watcher"
                                                /\ t.passed = obs.turn)]
        /\ UNCHANGED <<clientVars, link, appVars, captureVars, streams,
                       traceVars>>

EndConversationFlags == EndFlags("end_conversation")
EndConversationStopRecording == EndStopRecording("end_conversation")
EndConversationStopPlayback == EndStopPlayback("end_conversation")
CancelFlags == EndFlags("cancel_conversation")
CancelStopRecording == EndStopRecording("cancel_conversation")
CancelStopPlayback == EndStopPlayback("cancel_conversation")

\* a faulty timer: it runs and leaves conversation_ending as it is
ResetEndingForgets ==
    \E t \in At("reset_ending", "timer") :
        /\ threads' = Kill(threads, t)
        /\ UNCHANGED <<clientVars, link, appVars, captureVars, playVars,
                       streams, ws_busy, sent, traceVars, obs>>

\* the Timer(1.0) lambda: setattr(self, 'conversation_ending', False)
ResetEnding ==
    \E t \in At("reset_ending", "timer") :
        /\ conversation_ending' = FALSE
        /\ threads' = Kill(threads, t)
        /\ UNCHANGED <<connected, conversation_active, link, appVars,
                       captureVars, playVars, streams, ws_busy, sent,
                       traceVars, obs>>

----------------------------------------------------------------------------
(* RealtimeAIClient._check_audio_completion.check_buffer                   *)

\* `if not self.conversation_active or self.conversation_ending: return`,
\* first statement of check_buffer, also when a Timer(0.1) runs it
CheckGuard ==
    \E t \in At("check_buffer", "timer") \cup At("check_buffer", "guard") :
        /\ IF ~conversation_active \/ conversation_ending
           THEN Return(threads, t)
           ELSE /\ threads' = Move(threads, t, [t EXCEPT !.pc = "locked"])
                /\ UNCHANGED ws_busy
        /\ UNCHANGED <<clientVars, link, appVars, captureVars, playVars,
                       streams, sent, traceVars, obs>>

\* a faulty test: one of the two conditions is enough
NaturallyCompleteEither == audio_buffer = <<>> \/ response_finished

\* buffer_empty and response_done, both read under buffer_lock
NaturallyComplete == audio_buffer = <<>> /\ response_finished

\* the locked reads and the branch: _end_conversation() is called, or a
\* Timer(0.1) for check_buffer is started and check_buffer returns
CheckLocked ==
    \E t \in At("check_buffer", "locked") :
        /\ IF NaturallyComplete
           THEN /\ threads' = Move(threads, t,
                                   [t EXCEPT !.fn = "end_conversation",
                                             !.pc = "guard",
                                             !.via = "watcher",
                                             !.unplayed = output_queue # <<>>])
                /\ UNCHANGED ws_busy
           ELSE Return(Spawn(threads, [t EXCEPT !.pc = "timer",
                                                !.host = "own"]), t)
        /\ UNCHANGED <<clientVars, link, appVars, captureVars, playVars,
                       streams, sent, traceVars, obs>>

----------------------------------------------------------------------------
(* RealtimeAIClient._on_message: one inbound event at a time, on the       *)
(* websocket thread                                                        *)

Delivers ==
    /\ link = "open"
    /\ ~ws_busy
    /\ obs.nevents < MaxEvents

\* the turn a timer is issued in: 0 outside a turn
IssuedNow == IF conversation_active THEN obs.turn ELSE 0

\* the event types whose branch prints, sets the overlay's status or does
\* nothing, and one type that no branch of the if/elif chain names
StatusKinds ==
    {"session.created", "session.updated",
     "input_audio_buffer.speech_started",
     "input_audio_buffer.speech_stopped",
     "response.output_audio_transcript.delta",
     "response.output_audio_transcript.done",
     "conversation.item.input_audio_transcription.completed",
     "rate_limits.updated"}

\* a faulty chain: the end of the user's speech stops the capture as well
StopsCaptureOnSilence(type) ==
    type \in {"response.created", "input_audio_buffer.speech_stopped"}

\* the branch of the if/elif chain that calls audio_manager.stop_recording()
StopsCapture(type) == type = "response.created"

\* an event of one of the StatusKinds goes through the chain and returns
OnStatusEvent ==
    \E type \in StatusKinds :
        /\ Delivers
        /\ IF StopsCapture(type)
           THEN StopRecording
           ELSE UNCHANGED <<recording, input_stream>>
        /\ obs' = [obs EXCEPT !.nevents = @ + 1, !.quiet = FALSE]
        /\ UNCHANGED <<clientVars, link, appVars, input_queue, playVars,
                       streams, threads, ws_busy, sent, traceVars>>

\* "response.created": audio_manager.stop_recording()
OnResponseCreated ==
    /\ Delivers
    /\ StopRecording
    /\ obs' = [obs EXCEPT !.nevents = @ + 1, !.quiet = FALSE]
    /\ UNCHANGED <<clientVars, link, appVars, input_queue, playVars, streams,
                   threads, ws_busy, sent, traceVars>>

\* "response.audio.delta" / "response.output_audio.delta" with a non-empty
\* payload that base64 decodes to `bytes`: play_audio_data(bytes)
OnAudioDelta ==
    \E bytes \in SessionChunks :
        /\ Delivers
        /\ PlayAudioData(bytes)
        /\ obs' = [obs EXCEPT !.nevents = @ + 1, !.quiet = FALSE]
        /\ UNCHANGED <<clientVars, link, appVars, captureVars, playing,
                       response_finished, audio_buffer, streams, threads,
                       ws_busy, sent, traceVars>>

\* "response.done": audio_manager.response_finished = True ...
OnResponseDone ==
    /\ Delivers
    /\ response_finished' = TRUE
    /\ ws_busy' = TRUE
    /\ threads' = Spawn(threads, [Thread("on_response_done", "guard")
                                     EXCEPT !.host = "ws", !.issued = IssuedNow])
    /\ obs' = [obs EXCEPT !.nevents = @ + 1, !.quiet = FALSE]
    /\ UNCHANGED <<clientVars, link, appVars, captureVars, playing,
                   output_queue, audio_buffer, streams, sent, traceVars>>

\* a faulty test: the watcher is started whatever the turn's state
StartsWatcherAlways == TRUE

\* `if not self.conversation_ending and self.conversation_active`
StartsWatcher == ~conversation_ending /\ conversation_active

\* ... `if not self.conversation_ending and self.conversation_active:
\* self._check_audio_completion()`, which calls check_buffer()
OnResponseDoneGuard ==
    \E t \in At("on_response_done", "guard") :
        /\ IF StartsWatcher
           THEN /\ threads' = Move(threads, t, [t EXCEPT !.fn = "check_buffer",
                                                         !.issued = IssuedNow])
                /\ UNCHANGED ws_busy
           ELSE Return(threads, t)
        /\ UNCHANGED <<clientVars, link, appVars, captureVars, playVars,
                       streams, sent, traceVars, obs>>

\* error_msg.lower()
Lower(msg) ==
    [i \in 1..Len(msg) |-> IF msg[i] = "C" THEN "c"
                           ELSE IF msg[i] = "F" THEN "f" ELSE msg[i]]

Contains(text, pattern) ==
    \E i \in 0..(Len(text) - Len(pattern)) :
        SubSeq(text, i + 1, i + Len(pattern)) = pattern

CancellationFailed ==
    <<"c","a","n","c","e","l","l","a","t","i","o","n"," ",
      "f","a","i","l","e","d">>

\* a faulty test: it forgets .lower()
ReportsErrorCaseSensitive(msg) == ~Contains(msg, CancellationFailed)

\* `if "cancellation failed" not in error_msg.lower()`
ReportsError(msg) == ~Contains(Lower(msg), CancellationFailed)

\* a faulty test: the delayed end is scheduled also while ending
SchedulesEndAlways == TRUE

\* `if not self.conversation_ending` of the error branch
SchedulesEnd == ~conversation_ending

\* "error": unless the message is a cancellation race, the error is shown
\* and, `if not self.conversation_ending`, a Timer(2.0) for
\* _end_conversation is started
OnError(msg) ==
    /\ Delivers
    /\ threads' = IF ReportsError(msg) /\ SchedulesEnd
                  THEN Spawn(threads, [Thread("end_conversation", "timer")
                                          EXCEPT !.via = "error",
                                                 !.issued = IssuedNow])
                  ELSE threads
    /\ obs' = [obs EXCEPT !.nevents = @ + 1, !.quiet = FALSE,
                          !.ignored = @ \/ (~ReportsError(msg)
                                            /\ conversation_active
                                            /\ ~conversation_ending)]
    /\ UNCHANGED <<clientVars, link, appVars, captureVars, playVars, streams,
                   ws_busy, sent, traceVars>>

OnErrorEvent == \E msg \in ErrorMessages : OnError(msg)

\* an "error" event about a turn in progress: it arrives while
\* conversation_active, after start_conversation has returned True
OnErrorInTurn ==
    /\ conversation_active
    /\ Running("start_conversation") = {}
    /\ OnErrorEvent

\* "response.audio.delta" / "response.output_audio.delta" with the "delta"
\* string `text`: nothing when it is empty; else b64decode, whose exception
\* is caught and printed, and play_audio_data of the bytes
OnAudioDeltaText(text) ==
    /\ Delivers
    /\ IF text = <<>> \/ B64Raises(text)
       THEN UNCHANGED <<output_queue, enqueued>>
       ELSE /\ PlayAudioData(B64Decode(text))
            /\ enqueued' = Append(enqueued, B64Decode(text))
    /\ obs' = [obs EXCEPT !.nevents = @ + 1, !.quiet = FALSE]
    /\ UNCHANGED <<clientVars, link, appVars, captureVars, playing,
                   response_finished, audio_buffer, streams, threads, ws_busy,
                   sent, outdata, emitted>>

OnAudioDeltaEvent == \E text \in Payloads : OnAudioDeltaText(text)

SessionCallback == AudioCallback(ChunkSize, FALSE)

StartAudioDeviceOpens == StartAudio({TRUE})
StartAudioDeviceFails == StartAudio({FALSE})
StartAudioAnyDevice == StartAudio(BOOLEAN)
StartTurn == StartConversation(MaxStarts)
StartTurnAgain == StartConversation(MaxStarts + 1)

----------------------------------------------------------------------------
(* The conversation lifecycle: the turn, the inbound events, the watcher   *)
(* and the timers.  The capture callback and the send loop, which write    *)
(* only input_queue, their own position and the link's log, stay out.      *)

Lifecycle ==
    \/ Connect
    \/ OnOpen
    \/ StartFlush
    \/ StartAudioDeviceOpens
    \/ PlaybackThreadOpen
    \/ PlaybackThreadExit
    \/ SessionCallback
    \/ OnResponseCreated
    \/ OnAudioDelta
    \/ OnResponseDone
    \/ OnResponseDoneGuard
    \/ OnErrorEvent
    \/ CheckGuard
    \/ CheckLocked
    \/ EndGuard
    \/ EndConversationFlags
    \/ EndConversationStopRecording
    \/ EndConversationStopPlayback
    \/ ResetEnding

Next ==
    \/ StartTurn
    \/ Lifecycle

Spec == Init /\ [][Next]_vars

(* The lifecycle with the user's cancel_conversation                       *)

NextCancel ==
    \/ StartTurn
    \/ Lifecycle
    \/ CancelConversation
    \/ CancelFlags
    \/ CancelStopRecording
    \/ CancelStopPlayback

SpecCancel == Init /\ [][NextCancel]_vars

(* The lifecycle with one more turn                                        *)

NextTurns ==
    \/ StartTurnAgain
    \/ Lifecycle

SpecTurns == Init /\ [][NextTurns]_vars

(* Capture and outbound streaming: the turn is started, and started again, *)
(* the input stream pushes frames and the send loops forward them.         *)

NextStream ==
    \/ Connect
    \/ OnOpen
    \/ StartTurnAgain
    \/ StartFlush
    \/ StartAudioDeviceOpens
    \/ CaptureCallback
    \/ LoopTest
    \/ LoopPop
    \/ LoopSend

SpecStream == Init /\ [][NextStream]_vars

----------------------------------------------------------------------------
(* RealtimeAIClient: connect() seen from its caller, _on_open statement by *)
(* statement, the link closing, disconnect()                               *)

\* connect() on a client without a live link: self.ws = WebSocketApp(...),
\* its run_forever thread is started and the caller begins to wait.  `sent`
\* is the log of the new link.
ConnectCall ==
    /\ link \in {"none", "closed"}
    /\ Running("connect") = {}
    /\ obs.nconnect < MaxConnects
    /\ link' = "opening"
    /\ sent' = <<>>
    /\ threads' = Spawn(threads, Thread("connect", "wait"))
    /\ obs' = [obs EXCEPT !.nconnect = @ + 1, !.rc = "-"]
    /\ UNCHANGED <<appVars, clientVars, captureVars, playVars, streams,
                   ws_busy, traceVars>>

\* a faulty wait: it has no upper bound
TimedOutNever(t) == FALSE

\* `time.time() - start_time < timeout` is false
TimedOut(t) == t.polls >= MaxWaits

\* `while not self.connected and time.time() - start_time < timeout:
\* time.sleep(0.1)`
ConnectWait ==
    \E t \in At("connect", "wait") :
        /\ threads' = IF connected \/ TimedOut(t)
                      THEN Move(threads, t, [t EXCEPT !.pc = "check"])
                      ELSE Move(threads, t,
                                [t EXCEPT !.polls = IF @ < MaxWaits
                                                    THEN @ + 1 ELSE @])
        /\ UNCHANGED <<clientVars, link, appVars, captureVars, playVars,
                       streams, ws_busy, sent, traceVars, obs>>

\* `if not self.connected: raise Exception(...)`, caught by the `except` of
\* connect, which returns False; else `return True`
ConnectReturn ==
    \E t \in At("connect", "check") :
        /\ threads' = Kill(threads, t)
        /\ obs' = [obs EXCEPT !.rc = IF connected THEN "True" ELSE "False"]
        /\ UNCHANGED <<clientVars, link, appVars, captureVars, playVars,
                       streams, ws_busy, sent, traceVars>>

\* _on_open, first statements: the link is open, self.connected = True
OnOpenConnected ==
    /\ link = "opening"
    /\ ~ws_busy
    /\ link' = "open"
    /\ connected' = TRUE
    /\ ws_busy' = TRUE
    /\ threads' = Spawn(threads, [Thread("on_open", "send")
                                     EXCEPT !.host = "ws"])
    /\ UNCHANGED <<appVars, conversation_active, conversation_ending,
                   captureVars, playVars, streams, sent, traceVars, obs>>

\* _on_open, last statement: self.ws.send(session.update); an exception of
\* it is caught by the websocket library
OnOpenSend ==
    \E t \in At("on_open", "send") :
        /\ sent' = IF CanSend THEN Append(sent, SessionUpdate(settings))
                   ELSE sent
        /\ Return(threads, t)
        /\ UNCHANGED <<clientVars, link, appVars, captureVars, playVars,
                       streams, traceVars, obs>>

\* the peer or the network closes the link: run_forever ends and calls
\* _on_close, which clears connected
OnClose ==
    /\ link \in {"opening", "open"}
    /\ ~ws_busy
    /\ obs.ndrop < MaxDrops
    /\ link' = "closed"
    /\ connected' = FALSE
    /\ obs' = [obs EXCEPT !.ndrop = @ + 1]
    /\ UNCHANGED <<appVars, conversation_active, conversation_ending,
                   captureVars, playVars, streams, threads, ws_busy, sent,
                   traceVars>>

\* a faulty disconnect: it forgets the turn
DisconnectKeepsTurn ==
    /\ obs.ndisc < MaxDrops
    /\ connected' = FALSE
    /\ link' = IF link = "none" THEN "none" ELSE "closed"
    /\ obs' = [obs EXCEPT !.ndisc = @ + 1]
    /\ UNCHANGED <<appVars, conversation_active, conversation_ending,
                   captureVars, playVars, streams, threads, ws_busy, sent,
                   traceVars>>

\* disconnect(): conversation_active = False; connected = False;
\* `if self.ws: self.ws.close()`
Disconnect ==
    /\ obs.ndisc < MaxDrops
    /\ conversation_active' = FALSE
    /\ connected' = FALSE
    /\ link' = IF link = "none" THEN "none" ELSE "closed"
    /\ obs' = [obs EXCEPT !.ndisc = @ + 1]
    /\ UNCHANGED <<appVars, conversation_ending, captureVars, playVars,
                   streams, threads, ws_busy, sent, traceVars>>

----------------------------------------------------------------------------
(* ConversationMemory: add_message, get_recent_messages, clear_memory.     *)
(* Each call is made some ticks after the one before and reads the clock   *)
(* once.  What get_recent_messages returns is not kept.  obs.blank: the    *)
(* last call was an add_message with an empty or blank content.            *)

Roles == {"user", "assistant"}

\* the `content` of an add_message call
Contents == {<<>>, <<" ">>, <<"a">>, <<" ", "b">>}

\* content.strip()
RECURSIVE LStrip(_)
LStrip(text) ==
    IF text # <<>> /\ Head(text) = " " THEN LStrip(Tail(text)) ELSE text

RECURSIVE RStrip(_)
RStrip(text) ==
    IF text # <<>> /\ text[Len(text)] = " "
    THEN RStrip(SubSeq(text, 1, Len(text) - 1))
    ELSE text

Strip(text) == RStrip(LStrip(text))

\* (current_time - msg.timestamp) < max_age_seconds
Recent(msg, current_time) == current_time - msg.timestamp < max_age_seconds

\* seq[-n:] of a sequence longer than n
LastOf(seq, n) == SubSeq(seq, Len(seq) - n + 1, Len(seq))

\* a faulty cleanup: of too many messages it keeps the oldest
CleanupKeepsOldest(msgs, current_time) ==
    LET recent == SelectSeq(msgs, LAMBDA msg : Recent(msg, current_time))
    IN  IF Len(recent) > max_messages
        THEN SubSeq(recent, 1, max_messages)
        ELSE recent

\* _cleanup_old_messages: the messages younger than max_age_hours are kept
\* and, `if len(self.messages) > self.max_messages`,
\* self.messages[-self.max_messages:] of them
cleanup_old_messages(msgs, current_time) ==
    LET recent == SelectSeq(msgs, LAMBDA msg : Recent(msg, current_time))
    IN  IF Len(recent) > max_messages
        THEN LastOf(recent, max_messages)
        ELSE recent

\* the call is made `wait` ticks after the last one
Later(wait) ==
    /\ now + wait <= MaxNow
    /\ now' = now + wait

\* add_message(role, content): `if not content.strip(): return`; else the
\* message, with content.strip() and time.time(), is appended, then
\* _cleanup_old_messages() (and save_memory())
add_message(role, content) ==
    IF Strip(content) = <<>>
    THEN UNCHANGED <<messages, added>>
    ELSE LET message == [role |-> role, content |-> Strip(content),
                         timestamp |-> now']
         IN  /\ Len(added) < MaxAdds
             /\ messages' = cleanup_old_messages(Append(messages, message),
                                                 now')
             /\ added' = Append(added, message)

AddMessage ==
    \E role \in Roles, content \in Contents, wait \in 0..MaxWait :
        /\ Later(wait)
        /\ add_message(role, content)
        /\ obs' = [obs EXCEPT !.blank = (Strip(content) = <<>>)]
        /\ UNCHANGED <<clientVars, link, settings, conversation_in_progress,
                       captureVars, playVars, streams, threads, ws_busy, sent,
                       traceVars>>

\* get_recent_messages(max_count): _cleanup_old_messages(), then a copy of
\* the messages or of the last max_count of them is returned
GetRecentMessages ==
    \E wait \in 0..MaxWait :
        /\ Later(wait)
        /\ messages' = cleanup_old_messages(messages, now')
        /\ obs' = [obs EXCEPT !.blank = FALSE]
        /\ UNCHANGED <<clientVars, link, settings, conversation_in_progress,
                       added, captureVars, playVars, streams, threads,
                       ws_busy, sent, traceVars>>

\* clear_memory(): self.messages.clear() (and save_memory())
ClearMemory ==
    \E wait \in 0..MaxWait :
        /\ Later(wait)
        /\ messages' = <<>>
        /\ added' = <<>>
        /\ obs' = [obs EXCEPT !.blank = FALSE]
        /\ UNCHANGED <<clientVars, link, settings, conversation_in_progress,
                       captureVars, playVars, streams, threads, ws_busy, sent,
                       traceVars>>

NextMemory ==
    \/ AddMessage
    \/ GetRecentMessages
    \/ ClearMemory

SpecMemory == Init /\ [][NextMemory]_vars

----------------------------------------------------------------------------
(* AIVoiceAssistant: the voice hotkey                                      *)

\* on_hotkey_pressed: `if self.conversation_in_progress: return`; else
\* conversation_in_progress = True and a thread is started for
\* _handle_conversation
OnHotkeyPressed ==
    /\ obs.npress < MaxPresses
    /\ obs' = [obs EXCEPT !.npress = @ + 1]
    /\ IF conversation_in_progress
       THEN UNCHANGED <<conversation_in_progress, threads>>
       ELSE /\ conversation_in_progress' = TRUE
            /\ threads' = Spawn(threads, Thread("handle_conversation", "call"))
    /\ UNCHANGED <<clientVars, link, settings, memVars, captureVars,
                   playVars, streams, ws_busy, sent, traceVars>>

\* _handle_conversation: the overlay is shown and
\* self.ai_client.start_conversation() is called
HandleConversationCall ==
    \E t \in At("handle_conversation", "call") :
        /\ StartConversationBy(Move(threads, t, [t EXCEPT !.pc = "finally"]),
                               MaxPresses)
        /\ UNCHANGED conversation_in_progress

\* start_conversation has returned (after a False the overlay shows the
\* error for 2 s); `finally: self.conversation_in_progress = False`
HandleConversationFinally ==
    \E t \in At("handle_conversation", "finally") :
        /\ Running("start_conversation") = {}
        /\ conversation_in_progress' = FALSE
        /\ threads' = Kill(threads, t)
        /\ UNCHANGED <<clientVars, link, settings, memVars, captureVars,
                       playVars, streams, ws_busy, sent, traceVars, obs>>

(* The voice hotkey with the turn it starts and the turn's natural end     *)

NextHotkey ==
    \/ Connect
    \/ OnOpen
    \/ OnHotkeyPressed
    \/ HandleConversationCall
    \/ StartFlush
    \/ StartAudioDeviceOpens
    \/ HandleConversationFinally
    \/ OnResponseDone
    \/ OnResponseDoneGuard
    \/ CheckGuard
    \/ CheckLocked
    \/ EndGuard
    \/ EndConversationFlags
    \/ EndConversationStopRecording
    \/ EndConversationStopPlayback
    \/ ResetEnding

SpecHotkey == Init /\ [][NextHotkey]_vars

----------------------------------------------------------------------------
(* SettingsManager.set_setting and RealtimeAIClient._on_settings_changed   *)

\* set_setting(key, value) with a value that differs from the old one: the
\* value is stored and _on_settings_changed(key, value) is called.  For
\* "voice_speaker", `if self.connected and not self.conversation_active`:
\* disconnect(), whose ws.close() leaves the _on_close of the closed link
\* to come, and a Timer(0.5) for connect().  For "ai_context" and
\* "ai_personality", under the same test: _update_session_instructions(),
\* which sends a session.update, an exception of the send caught.  For
\* any other key: nothing.
SetSetting(key, value) ==
    /\ obs.nchange < MaxChanges
    /\ settings[key] # value
    /\ settings' = [settings EXCEPT ![key] = value]
    /\ obs' = [obs EXCEPT !.nchange = @ + 1]
    /\ IF key = "voice_speaker" /\ connected /\ ~conversation_active
       THEN /\ conversation_active' = FALSE
            /\ connected' = FALSE
            /\ link' = IF link = "none" THEN "none" ELSE "closed"
            /\ threads' = Spawn(Spawn(threads, Thread("connect", "timer")),
                                Thread("on_close", "pending"))
            /\ UNCHANGED <<conversation_ending, sent>>
       ELSE IF key \in {"ai_context", "ai_personality"}
               /\ connected /\ ~conversation_active
       THEN /\ sent' = IF CanSend
                       THEN Append(sent, SessionUpdate(settings'))
                       ELSE sent
            /\ UNCHANGED <<clientVars, link, threads>>
       ELSE UNCHANGED <<clientVars, link, threads, sent>>
    /\ UNCHANGED <<conversation_in_progress, memVars, captureVars, playVars,
                   streams, ws_busy, traceVars>>

\* the run_forever thread of the link that this disconnect() closed ends
\* and calls _on_close: connected = False, whatever self.ws is by then
OnCloseAfterDisconnect ==
    \E t \in At("on_close", "pending") :
        /\ connected' = FALSE
        /\ threads' = Kill(threads, t)
        /\ UNCHANGED <<appVars, conversation_active, conversation_ending,
                       link, captureVars, playVars, streams, ws_busy, sent,
                       traceVars, obs>>

SetInstructions ==
    \E key \in InstructionKeys, text \in Texts : SetSetting(key, text)

SetVoice == \E voice \in Voices : SetSetting("voice_speaker", voice)

\* the Timer(0.5) fires: connect() replaces self.ws by a new WebSocketApp,
\* starts its thread and begins to wait.  `sent` is the log of the new link.
ReconnectTimer ==
    \E t \in At("connect", "timer") :
        /\ link' = "opening"
        /\ sent' = <<>>
        /\ threads' = Move(threads, t, [t EXCEPT !.pc = "wait"])
        /\ obs' = [obs EXCEPT !.rc = "-"]
        /\ UNCHANGED <<appVars, clientVars, captureVars, playVars, streams,
                       ws_busy, traceVars>>

(* The settings and the link: the user changes the texts and the voice    *)
(* of a client that connects and is reconnected.                           *)

NextSettings ==
    \/ Connect
    \/ OnOpen
    \/ SetInstructions
    \/ SetVoice
    \/ ReconnectTimer
    \/ OnCloseAfterDisconnect
    \/ ConnectWait
    \/ ConnectReturn

SpecSettings == Init /\ [][NextSettings]_vars

(* The same with a turn that the user starts and cancels                   *)

NextReconfigure ==
    \/ NextSettings
    \/ StartTurn
    \/ StartFlush
    \/ StartAudioDeviceOpens
    \/ CancelConversation
    \/ CancelFlags
    \/ CancelStopRecording
    \/ CancelStopPlayback

SpecReconfigure == Init /\ [][NextReconfigure]_vars

(* connect() and the link alone.  The caller's thread runs: its wait loop  *)
(* and its return are weakly fair.  Nothing makes the open event arrive.   *)

NextDial ==
    \/ ConnectCall
    \/ ConnectWait
    \/ ConnectReturn
    \/ OnOpenConnected
    \/ OnOpenSend
    \/ OnClose
    \/ Disconnect
    \/ StartTurn
    \/ StartFlush
    \/ StartAudioDeviceOpens

SpecDial ==
    /\ Init
    /\ [][NextDial]_vars
    /\ WF_vars(ConnectWait)
    /\ WF_vars(ConnectReturn)

(* The link's life with the turn and the user's cancel_conversation        *)

NextConnect ==
    \/ ConnectCall
    \/ ConnectWait
    \/ ConnectReturn
    \/ OnOpenConnected
    \/ OnOpenSend
    \/ OnClose
    \/ Disconnect
    \/ StartTurn
    \/ StartFlush
    \/ StartAudioDeviceOpens
    \/ CancelConversation
    \/ CancelFlags
    \/ CancelStopRecording
    \/ CancelStopPlayback

SpecConnect == Init /\ [][NextConnect]_vars

(* The same with the capture and the send loop                             *)

NextLink ==
    \/ NextConnect
    \/ CaptureCallback
    \/ LoopTest
    \/ LoopPop
    \/ LoopSend

SpecLink == Init /\ [][NextLink]_vars

(* A turn whose input device opens or not, with the capture and the send   *)
(* loop                                                                    *)

NextDevice ==
    \/ Connect
    \/ OnOpen
    \/ StartTurnAgain
    \/ StartFlush
    \/ StartAudioAnyDevice
    \/ CaptureCallback
    \/ LoopTest
    \/ LoopPop
    \/ LoopSend

SpecDevice == Init /\ [][NextDevice]_vars

(* Capture and outbound streaming with the response.created event, the    *)
(* only thing here that stops the capture                                  *)

NextFeedback ==
    \/ NextStream
    \/ OnResponseCreated

SpecFeedback == Init /\ [][NextFeedback]_vars

(* A turn that receives audio events with any payload, the output stream  *)
(* playing them                                                            *)

NextDecode ==
    \/ Connect
    \/ OnOpen
    \/ StartTurn
    \/ StartFlush
    \/ StartAudioDeviceOpens
    \/ PlaybackThreadOpen
    \/ ObservedCallback
    \/ OnAudioDeltaEvent

SpecDecode == Init /\ [][NextDecode]_vars

(* A turn in which frames are captured, audio arrives and is played, and   *)
(* the server reports its status.                                          *)

NextStatus ==
    \/ Connect
    \/ OnOpen
    \/ StartTurn
    \/ StartFlush
    \/ StartAudioDeviceOpens
    \/ CaptureCallback
    \/ PlaybackThreadOpen
    \/ ObservedCallback
    \/ OnAudioDelta
    \/ OnStatusEvent

SpecStatus == Init /\ [][NextStatus]_vars

(* Playback across the end of a turn: the audio events, the callbacks of  *)
(* the output stream with what they write kept, the user's cancel and the  *)
(* next turn.                                                              *)

NextBleed ==
    \/ Connect
    \/ OnOpen
    \/ StartTurnAgain
    \/ StartFlush
    \/ StartAudioDeviceOpens
    \/ PlaybackThreadOpen
    \/ PlaybackThreadExit
    \/ ObservedCallback
    \/ OnAudioDelta
    \/ CancelConversation
    \/ CancelFlags
    \/ CancelStopRecording
    \/ CancelStopPlayback

SpecBleed == Init /\ [][NextBleed]_vars

(* A turn that the user cancels and starts again while the send loop of   *)
(* the first start is still running; the link may close.                   *)

NextRestart ==
    \/ Connect
    \/ OnOpen
    \/ OnClose
    \/ StartTurnAgain
    \/ StartFlush
    \/ StartAudioDeviceOpens
    \/ CancelConversation
    \/ CancelFlags
    \/ CancelStopRecording
    \/ CancelStopPlayback
    \/ CaptureCallback
    \/ LoopTest
    \/ LoopPop
    \/ LoopSend

SpecRestart == Init /\ [][NextRestart]_vars

(* The response.done events over two turns that end by themselves: the   *)
(* events, the watcher, _end_conversation and the cool-down timer.         *)

NextFinished ==
    \/ Connect
    \/ OnOpen
    \/ StartTurnAgain
    \/ StartFlush
    \/ StartAudioDeviceOpens
    \/ OnResponseDone
    \/ OnResponseDoneGuard
    \/ CheckGuard
    \/ CheckLocked
    \/ EndGuard
    \/ EndConversationFlags
    \/ EndConversationStopRecording
    \/ EndConversationStopPlayback
    \/ ResetEnding

SpecFinished == Init /\ [][NextFinished]_vars

(* The cool-down: a turn, the inbound "error" events at any time and the   *)
(* "response.done" events that arrive outside a turn, the watcher and the  *)
(* timers.  A started Timer fires and a running _end_conversation goes on  *)
(* to its end: these steps are weakly fair.                                *)

\* a stray "response.done": it arrives while no turn is active
OnStrayResponseDone == ~conversation_active /\ OnResponseDone

NextCoolDown ==
    \/ Connect
    \/ OnOpen
    \/ StartTurn
    \/ StartFlush
    \/ StartAudioDeviceOpens
    \/ OnErrorEvent
    \/ OnStrayResponseDone
    \/ OnResponseDoneGuard
    \/ CheckGuard
    \/ CheckLocked
    \/ EndGuard
    \/ EndConversationFlags
    \/ EndConversationStopRecording
    \/ EndConversationStopPlayback
    \/ ResetEnding

SpecCoolDown ==
    /\ Init
    /\ [][NextCoolDown]_vars
    /\ WF_vars(EndGuard)
    /\ WF_vars(EndConversationFlags)
    /\ WF_vars(EndConversationStopRecording)
    /\ WF_vars(EndConversationStopPlayback)
    /\ WF_vars(ResetEnding)

(* The link is lost during a turn: the send loop, the capture, the        *)
(* "response.done" events with their watcher, and the natural end.  Every  *)
(* thread of the program that can take a step eventually takes one;        *)
(* nothing makes the server send an event or the user act.                 *)

NextDrop ==
    \/ Connect
    \/ OnOpen
    \/ OnClose
    \/ StartTurn
    \/ StartFlush
    \/ StartAudioDeviceOpens
    \/ CaptureCallback
    \/ LoopTest
    \/ LoopPop
    \/ LoopSend
    \/ OnResponseDone
    \/ OnResponseDoneGuard
    \/ CheckGuard
    \/ CheckLocked
    \/ EndGuard
    \/ EndConversationFlags
    \/ EndConversationStopRecording
    \/ EndConversationStopPlayback
    \/ ResetEnding

SpecDrop ==
    /\ Init
    /\ [][NextDrop]_vars
    /\ WF_vars(StartFlush)
    /\ WF_vars(StartAudioDeviceOpens)
    /\ WF_vars(LoopTest)
    /\ WF_vars(LoopPop)
    /\ WF_vars(LoopSend)
    /\ WF_vars(OnResponseDoneGuard)
    /\ WF_vars(CheckGuard)
    /\ WF_vars(CheckLocked)
    /\ WF_vars(EndGuard)
    /\ WF_vars(EndConversationFlags)
    /\ WF_vars(EndConversationStopRecording)
    /\ WF_vars(EndConversationStopPlayback)
    /\ WF_vars(ResetEnding)

(* The error excursion: the turns, the inbound "error" events, the loss of *)
(* the link, the Timer(2.0) of the error branch and the Timer(1.0) that    *)
(* clears conversation_ending.  A started Timer fires and a running        *)
(* _end_conversation goes on to its end: these steps are weakly fair.      *)
(* Nothing makes the user start a turn or the server send an event.  The   *)
(* errors are those of a turn in progress: start_conversation, which lasts *)
(* far less than the 2.0 s of the Timer, has returned.                     *)

NextError ==
    \/ Connect
    \/ OnOpen
    \/ OnClose
    \/ StartTurnAgain
    \/ StartFlush
    \/ StartAudioDeviceOpens
    \/ OnErrorInTurn
    \/ EndGuard
    \/ EndConversationFlags
    \/ EndConversationStopRecording
    \/ EndConversationStopPlayback
    \/ ResetEnding

SpecError ==
    /\ Init
    /\ [][NextError]_vars
    /\ WF_vars(EndGuard)
    /\ WF_vars(EndConversationFlags)
    /\ WF_vars(EndConversationStopRecording)
    /\ WF_vars(EndConversationStopPlayback)
    /\ WF_vars(ResetEnding)

----------------------------------------------------------------------------
(* Properties of the playback engine                                       *)

\* the samples of a sequence of well-formed chunks, in order
SamplesOf(chunks) ==
    Flatten([i \in 1..Len(chunks) |-> DecodeChunk(chunks[i])])

WellFormed(chunks) ==
    \A i \in 1..Len(chunks) : Len(chunks[i]) % 2 = 0

ZeroSample == [num |-> 0, den |-> 32767]

\* C4: when well-formed chunks are given to play_audio_data and only then
\* pulled by the playback callbacks (no start/stop in between), what the
\* callbacks wrote, followed by what is still buffered, is the chunks'
\* samples in call order; zeros are written only once nothing is buffered,
\* and then only zeros follow.
C4_PlaybackOrdering ==
    (~obs.mixed /\ WellFormed(enqueued)) =>
        LET all == SamplesOf(enqueued)
            pending == audio_buffer \o SamplesOf(output_queue)
        IN  IF pending # <<>>
            THEN emitted \o pending = all
            ELSE /\ Len(emitted) >= Len(all)
                 /\ \A i \in 1..Len(emitted) :
                       emitted[i] = IF i <= Len(all) THEN all[i] ELSE ZeroSample

\* C4 witness: two well-formed chunks of more samples than one period were
\* enqueued, then pulled by several callbacks down to the zero padding
C4_Witness ==
    /\ ~obs.mixed
    /\ WellFormed(enqueued)
    /\ Len(enqueued) = 2
    /\ Len(SamplesOf(enqueued)) > ChunkSize
    /\ Len(emitted) > Len(SamplesOf(enqueued))
    /\ obs.ncb >= 2

\* C5: a playback callback that drains well-formed chunks writes exactly
\* `frames` samples: with n >= frames accumulated the first `frames`, the
\* other n - frames staying in order; with 0 < n < frames the n samples and
\* frames - n zeros, the accumulator left empty; with n = 0 only zeros.
C5_CallbackFill ==
    [][(obs'.ncb = obs.ncb + 1 /\ WellFormed(output_queue)) =>
         LET acc == audio_buffer \o SamplesOf(output_queue)
             n == Len(acc)
         IN  /\ Len(outdata') = ChunkSize
             /\ output_queue' = <<>>
             /\ n >= ChunkSize =>
                   /\ \A i \in 1..ChunkSize : outdata'[i] = acc[i]
                   /\ Len(audio_buffer') = n - ChunkSize
                   /\ \A i \in 1..(n - ChunkSize) :
                         audio_buffer'[i] = acc[ChunkSize + i]
             /\ n < ChunkSize =>
                   /\ \A i \in 1..n : outdata'[i] = acc[i]
                   /\ \A i \in (n + 1)..ChunkSize : outdata'[i] = ZeroSample
                   /\ audio_buffer' = <<>>]_vars

\* C5 witness: an underrun was padded (a sample, then zeros, accumulator
\* empty) after a callback that had left a remainder
C5_Witness ==
    /\ obs.ncb >= 2
    /\ Len(outdata) = ChunkSize
    /\ outdata[1] # ZeroSample
    /\ outdata[ChunkSize] = ZeroSample
    /\ audio_buffer = <<>>
    /\ Len(emitted) = 2 * ChunkSize
    /\ emitted[ChunkSize] # ZeroSample

----------------------------------------------------------------------------
(* Properties of the conversation session                                  *)

\* how many threads of the bag satisfy P
NumThreads(bag, P(_)) ==
    BagCardinality([t \in {x \in BagToSet(bag) : P(x)} |-> bag[t]])

Terminating(t) ==
    t.fn \in {"end_conversation", "cancel_conversation"} /\ InBody(t)

\* C1 (as claimed): of the invocations of _end_conversation and
\* cancel_conversation made against one turn, at most one is past its guard
\* and performing the termination.
C1_EndTurnOnce ==
    \A k \in 1..obs.turn :
        LET InTurn(t) == Terminating(t) /\ t.passed = k
        IN  NumThreads(threads, InTurn) <= 1

\* C2 (as claimed): a delayed _end_conversation scheduled by an error event
\* of the current turn performs no termination once the completion watcher
\* has ended that turn: the stop of capture, the stop of playback and the
\* hiding of the overlay happen once for the turn.
C2_DelayedEndIsNoOp ==
    /\ \A t \in BagToSet(threads) :
          (/\ t.fn = "end_conversation"
           /\ t.via = "error"
           /\ InBody(t)
           /\ t.issued = obs.turn) => ~obs.natural
    /\ obs.natural => obs.stop_rec <= 1 /\ obs.stop_play <= 1 /\ obs.hides <= 1

\* C3 (as claimed): when a turn was started after the turn before it had
\* ended, no delayed error end and no completion poll issued during an
\* earlier turn performs a termination in it.
C3_StaleTimerIsNoOp ==
    \A t \in BagToSet(threads) :
        (/\ t.fn = "end_conversation"
         /\ InBody(t)
         /\ t.issued > 0
         /\ t.passed \in obs.fresh) => t.passed = t.issued

\* C6 (as claimed): no frame pushed before a start_conversation call is
\* sent as input_audio_buffer.append after that call has returned.
C6_NoStaleFrameSent ==
    \A i \in 1..Len(sent) :
        sent[i].type = "input_audio_buffer.append"
            => sent[i].frame.gen >= sent[i].after

WatcherEnd(t) ==
    t.fn = "end_conversation" /\ t.via = "watcher" /\ t.pc = "guard"
Locked(t) == t.fn = "check_buffer" /\ t.pc = "locked"
Poll(t) == t.fn = "check_buffer" /\ t.pc = "timer"

\* C7: the completion watcher calls _end_conversation only from a state in
\* which response_finished is set and the accumulator is empty; when a
\* check finds one of the two missing, no call is made and one more poll
\* timer is started.
C7_WatcherNeedsBoth ==
    [][/\ NumThreads(threads', WatcherEnd) > NumThreads(threads, WatcherEnd)
            => response_finished /\ audio_buffer = <<>>
       /\ (/\ NumThreads(threads', Locked) < NumThreads(threads, Locked)
           /\ ~(response_finished /\ audio_buffer = <<>>))
            => /\ NumThreads(threads', WatcherEnd)
                    = NumThreads(threads, WatcherEnd)
               /\ NumThreads(threads', Poll) = NumThreads(threads, Poll) + 1
               /\ UNCHANGED clientVars]_vars

\* C7 witness: a check re-polled (its timer is pending) and another one
\* went on to end the turn
C7_Witness ==
    /\ \E t \in BagToSet(threads) :
          t.fn = "end_conversation" /\ t.via = "watcher" /\ InBody(t)
    /\ \E t \in BagToSet(threads) : Poll(t)

\* C8 (as claimed): when the completion watcher ends a turn, no chunk given
\* to play_audio_data is still waiting in output_queue.
C8_NothingLeftToPlay ==
    \A t \in BagToSet(threads) :
        (t.fn = "end_conversation" /\ t.via = "watcher" /\ InBody(t))
            => ~t.unplayed

\* C9 (as claimed): the frames carried by the input_audio_buffer.append
\* messages are in the order the capture callback pushed them, none twice.
C9_SentInPushOrder ==
    \A i, j \in 1..Len(sent) :
        (/\ i < j
         /\ sent[i].type = "input_audio_buffer.append"
         /\ sent[j].type = "input_audio_buffer.append")
            => sent[i].frame.id < sent[j].frame.id

\* the error messages that contain "cancellation failed", whatever the case
CancellationRaces ==
    {msg \in ErrorMessages :
        \E i \in 0..(Len(msg) - 19) :
            /\ msg[i + 1] \in {"c", "C"}
            /\ SubSeq(msg, i + 2, i + 13) =
                 <<"a","n","c","e","l","l","a","t","i","o","n"," ">>
            /\ msg[i + 14] \in {"f", "F"}
            /\ SubSeq(msg, i + 15, i + 19) = <<"a","i","l","e","d">>}

\* C10: handling an error event whose message contains "cancellation
\* failed" starts no timer and leaves active, ending, connected, recording
\* and playing (and all the rest of the client) as they were.
C10_CancellationRaceIgnored ==
    [][(\E msg \in CancellationRaces : OnError(msg)) =>
          UNCHANGED <<clientVars, link, appVars, captureVars, playVars,
                      streams, threads, ws_busy, sent>>]_vars

\* C10 witness: such an error was handled during an active turn, which
\* goes on recording and playing
C10_Witness ==
    /\ obs.ignored
    /\ conversation_active
    /\ ~conversation_ending
    /\ recording
    /\ playing
    /\ \A t \in BagToSet(threads) :
          t.fn \notin {"end_conversation", "reset_ending"}

----------------------------------------------------------------------------
(* Properties of the link and of the start of a turn                       *)

\* C11: a start_conversation call made while connected is False returns
\* False and changes nothing: active, ending, the capture queue, the capture
\* and playback engines, the link's log and the threads stay as they were.
C11_RefusedStartIsNoOp ==
    [][(~connected /\ StartTurn) =>
          /\ obs'.refused
          /\ UNCHANGED <<clientVars, link, appVars, captureVars, playVars,
                         streams, threads, ws_busy, sent>>]_vars

\* C11 witness: a call was refused on a client whose link had been closed
C11_Witness ==
    /\ obs.refused
    /\ link = "closed"
    /\ ~connected
    /\ ~conversation_active
    /\ Running("send_audio_loop") = {}

\* C12 (as claimed): when a start_conversation call during which no
\* inbound event was handled returns True, the response-finished flag is
\* False and the playback accumulator is empty, whatever the state the call
\* was made in.
C12_StartClearsFinished ==
    [][(obs.quiet /\ StartAudioDeviceOpens) =>
          (~response_finished' /\ audio_buffer' = <<>>)]_vars

\* a message is given to the link in this step
Sends(type) ==
    /\ Len(sent') = Len(sent) + 1
    /\ sent'[Len(sent')].type = type

\* C13 (as claimed): where only the response.created handler stops the
\* capture, an input_audio_buffer.append is sent only while the capture is
\* on: none is sent once response.created has been handled.
C13_NoAppendAfterResponseCreated ==
    [][Sends("input_audio_buffer.append") => recording]_vars

\* C14: whatever the state disconnect() is called in, when it returns
\* conversation_active and connected are False and the link, if there was
\* one, is closed.
C14_DisconnectForces ==
    [][obs'.ndisc = obs.ndisc + 1 =>
          /\ ~conversation_active'
          /\ ~connected'
          /\ link' = IF link = "none" THEN "none" ELSE "closed"]_vars

\* C14 witness: disconnect() was called during a turn, whose capture and
\* playback are still on
C14_Witness ==
    /\ obs.ndisc > 0
    /\ obs.turn > 0
    /\ link = "closed"
    /\ ~conversation_active
    /\ ~connected
    /\ recording
    /\ playing

\* C15: every connect() call returns, True or False: when the open event
\* does not arrive within the wait bound the call gives up.
C15_ConnectTerminates ==
    (Running("connect") # {}) ~>
        (Running("connect") = {} /\ obs.rc \in {"True", "False"})

\* C15 witness: connect() has returned False while the link was still
\* opening
C15_Witness ==
    /\ obs.rc = "False"
    /\ Running("connect") = {}
    /\ link = "opening"
    /\ ~connected

\* C16 (as claimed): when connect() returns True, connected is True and
\* session.update has been sent on the link; and no
\* input_audio_buffer.clear or input_audio_buffer.append is on the link
\* ahead of session.update.
C16_ConfiguredBeforeSuccess ==
    [][/\ (obs'.rc = "True" /\ obs.rc # "True") =>
            /\ connected
            /\ \E i \in 1..Len(sent) : sent[i].type = "session.update"
       /\ \A i \in 1..Len(sent') :
            sent'[i].type \in {"input_audio_buffer.clear",
                               "input_audio_buffer.append"} =>
                \E j \in 1..(i - 1) : sent'[j].type = "session.update"]_vars

\* C17 (as claimed): whatever the payloads of the audio events, no
\* playback callback raises and the output stream is not aborted.
C17_StreamSurvivesAnyPayload ==
    /\ ~obs.raised
    /\ streams.ref # "aborted"

\* C18: when start_recording cannot open the input device it returns with
\* recording False and no input stream, and active, ending, connected and
\* the capture queue are as before; and without an input stream no frame is
\* pushed.
C18_DeviceFailureLeavesCaptureOff ==
    [][/\ (~recording /\ StartAudioDeviceFails) =>
            /\ ~recording'
            /\ ~input_stream'
            /\ UNCHANGED <<clientVars, input_queue>>
       /\ ~input_stream => Len(input_queue') <= Len(input_queue)]_vars

\* C18 witness: the device failed to open and the turn goes on without
\* capture
C18_Witness ==
    /\ obs.degraded
    /\ conversation_active
    /\ connected
    /\ ~recording
    /\ ~input_stream
    /\ playing
    /\ Running("send_audio_loop") # {}

\* C19 (as claimed): an input_audio_buffer.append is sent only in a state
\* where conversation_active and connected are both True.
C19_AppendOnlyWhileActive ==
    [][Sends("input_audio_buffer.append") =>
          (conversation_active /\ connected)]_vars

Idle ==
    /\ ~conversation_active
    /\ ~conversation_ending
    /\ ~recording
    /\ ~playing

\* the Timer(2.0) of an error reported during turn k is pending
ErrorPending(k) ==
    /\ obs.turn = k
    /\ \E t \in At("end_conversation", "timer") :
           t.via = "error" /\ t.issued = k

Spaced(a, b) == IF a = <<>> \/ b = <<>> THEN a \o b ELSE a \o <<" ">> \o b

\* the non-empty ones of the three texts, in the order context,
\* personality, custom, one space between neighbours
NonEmptySpaced(st) ==
    Spaced(Spaced(st.ai_context, st.ai_personality), st.custom_instructions)

\* C21: get_combined_instructions gives the non-empty texts among context,
\* personality and custom, in that order, joined by one space; and every
\* session.update that is sent carries the combination of the settings as
\* they are after the latest change, or the fallback text when that
\* combination is blank.
C21_InstructionsFollowSettings ==
    [][/\ get_combined_instructions(settings') = NonEmptySpaced(settings')
       /\ Sends("session.update") =>
             sent'[Len(sent')].instructions =
                 IF IsBlank(NonEmptySpaced(settings'))
                 THEN FallbackInstructions
                 ELSE NonEmptySpaced(settings')]_vars

\* C21 witness: after two changes of the texts the link carries a
\* session.update with the new combination, in which one text is skipped
C21_Witness ==
    /\ obs.nchange = 2
    /\ settings.ai_context = <<>>
    /\ settings.ai_personality = <<"y">>
    /\ settings.custom_instructions = <<"x">>
    /\ sent # <<>>
    /\ sent[Len(sent)].type = "session.update"
    /\ sent[Len(sent)].instructions = <<"y", " ", "x">>

\* C22 (as claimed): the Timer(1.0) started by the end of turn N clears
\* conversation_ending only when no later turn's end has set it: when it
\* fires and clears the flag, no cool-down of a later turn, started after
\* the earlier one had ended, is pending.
C22_ResetOwnGuardOnly ==
    [][\A t \in At("reset_ending", "timer") :
          (threads' = Kill(threads, t) /\ t.issued >= 1
             /\ conversation_ending /\ ~conversation_ending') =>
              ~\E u \in At("reset_ending", "timer") :
                   u.issued > t.issued /\ u.issued \in obs.fresh]_vars

Watchers(bag) ==
    LET IsWatcher(t) == t.fn = "check_buffer" IN NumThreads(bag, IsWatcher)

DelayedEnds(bag) ==
    LET IsDelayedEnd(t) == t.fn = "end_conversation" /\ t.pc = "timer"
    IN  NumThreads(bag, IsDelayedEnd)

\* C23: conversation_ending, once set, becomes False again; a
\* start_conversation call made while it is set, on a connected client,
\* succeeds; and while it is set no step starts a completion watcher or
\* schedules a delayed _end_conversation, whatever event arrives.
C23_CoolDown ==
    /\ conversation_ending ~> ~conversation_ending
    /\ [][(conversation_ending /\ connected /\ StartTurn) =>
             (conversation_active' /\ ~conversation_ending'
                /\ obs'.turn = obs.turn + 1)]_vars
    /\ [][conversation_ending =>
             /\ Watchers(threads') <= Watchers(threads)
             /\ DelayedEnds(threads') <= DelayedEnds(threads)]_vars

\* C23 witness: in the cool-down of turn 1, which the delayed end of an
\* error closed, a response.done that arrived after the turn is about to
\* be tested, and no watcher and no delayed end exist
C23_Witness ==
    /\ conversation_ending
    /\ obs.turn = 1
    /\ obs.nevents = 2
    /\ \E t \in At("on_response_done", "guard") : t.issued = 0
    /\ Watchers(threads) = 0
    /\ DelayedEnds(threads) = 0

\* the samples of `seq` that are not the zero of the padding
NonPadding(seq) == SelectSeq(seq, LAMBDA x : x # ZeroSample)

\* `a` is `b` with some elements left out
RECURSIVE IsSubSeq(_, _)
IsSubSeq(a, b) ==
    IF a = <<>> THEN TRUE
    ELSE IF b = <<>> THEN FALSE
    ELSE IF Head(a) = Head(b) THEN IsSubSeq(Tail(a), Tail(b))
    ELSE IsSubSeq(a, Tail(b))

\* C24: with well-formed chunks, in every interleaving of play_audio_data,
\* the playback callbacks, start_playback and stop_playback: the callbacks
\* have written no more samples than were enqueued; what they wrote,
\* followed by what is still waiting in the accumulator and the queue, is
\* the enqueued samples in call order with some left out; and the samples
\* left out are exactly those that a stop or a start threw away.
C24_PlaybackAccounting ==
    WellFormed(enqueued) =>
        LET all == SamplesOf(enqueued)
            played == NonPadding(emitted)
            pending == audio_buffer \o SamplesOf(output_queue)
        IN  /\ Len(played) <= Len(all)
            /\ IsSubSeq(played \o pending, all)
            /\ Len(played) + Len(pending) + obs.ndropped = Len(all)

\* C24 witness: of two different well-formed chunks the flush of a
\* stop_playback threw the first away and, before that stop_playback
\* returned, a callback took the second and played it
C24_Witness ==
    /\ WellFormed(enqueued)
    /\ Len(enqueued) = 2
    /\ enqueued[1] # enqueued[2]
    /\ At("stop_playback", "flush") # {}
    /\ obs.ndropped = Len(SamplesOf(<<enqueued[1]>>))
    /\ NonPadding(emitted) = SamplesOf(<<enqueued[2]>>)

\* C25 (as claimed): once stop_playback has returned and until the next
\* start_playback (playing is False), no playback callback writes a sample
\* of a chunk: it writes zeros only.
C25_NothingPlayedAfterStop ==
    [][(~playing /\ obs'.ncb = obs.ncb + 1) =>
          NonPadding(outdata') = <<>>]_vars

\* C26 (as claimed): a send loop whose turn has ended does not go on: when
\* the `while` test of a loop lets it into another iteration, no later
\* turn, started after the loop's own turn had ended, is in progress.
C26_LoopEndsWithItsTurn ==
    [][\A t \in At("send_audio_loop", "while") :
          threads' = Move(threads, t, [t EXCEPT !.pc = "pop"]) =>
              ~(t.issued < obs.turn /\ (t.issued + 1) \in obs.fresh)]_vars

\* C27: handling response.done sets response_finished; the test that
\* follows starts the completion watcher exactly when the turn is active and
\* not ending at that moment, and otherwise starts nothing; and
\* response_finished, once True, is cleared by nothing but the
\* start_playback of a start_conversation call.
C27_ResponseDone ==
    [][/\ OnResponseDone => response_finished'
       /\ OnResponseDoneGuard =>
             (Watchers(threads') = Watchers(threads) + 1
                <=> (conversation_active /\ ~conversation_ending))
       /\ OnResponseDoneGuard =>
             (Watchers(threads') = Watchers(threads)
                <=> ~(conversation_active /\ ~conversation_ending))
       /\ (response_finished /\ ~response_finished') =>
             StartAudioDeviceOpens]_vars

\* C27 witness: turn 1 ended by itself and its cool-down is still pending;
\* the start of turn 2 ran start_playback after the stop_playback of that
\* end, so that response_finished was False; a response.done of turn 2 has
\* set it and started the watcher
C27_Witness ==
    /\ obs.turn = 2
    /\ 2 \in obs.fresh
    /\ obs.nevents = 2
    /\ \E t \in At("reset_ending", "timer") : t.issued = 1
    /\ conversation_active
    /\ Running("start_conversation") = {}
    /\ playing
    /\ response_finished
    /\ \E t \in Running("check_buffer") : t.issued = 2

InstructionsOf(st) ==
    <<st.ai_context, st.ai_personality, st.custom_instructions>>

\* C28 (as claimed): a settings change made while a turn is active leaves
\* the link alone and sends nothing; a change of the voice made while
\* connected and idle closes the link and schedules the reconnection; a
\* change of the instructions made while connected and idle sends one
\* session.update and leaves connected, conversation_active and
\* conversation_ending as they were.
C28_ReconfigureWhenIdle ==
    [][/\ (settings' # settings /\ conversation_active) =>
             UNCHANGED <<link, connected, sent>>
       /\ (settings'.voice_speaker # settings.voice_speaker
             /\ connected /\ ~conversation_active) =>
             /\ ~connected' /\ link' = "closed"
             /\ At("connect", "timer")' # {}
       /\ (InstructionsOf(settings') # InstructionsOf(settings)
             /\ connected /\ ~conversation_active) =>
             /\ Sends("session.update")
             /\ UNCHANGED clientVars]_vars

\* C29: stop_recording, called in any state of the capture engine, leaves
\* recording False and no input stream, and touches nothing else; called
\* again in the state a stop_recording left, it changes nothing.
C29_StopRecordingIdempotent ==
    [][CallStopRecording =>
          /\ ~recording' /\ ~input_stream'
          /\ UNCHANGED <<input_queue, playVars, clientVars>>
          /\ (~recording /\ ~input_stream) =>
                UNCHANGED <<captureVars, playVars, clientVars>>]_vars

\* C29 witness: one successful start_recording and two stop_recording
\* calls were made; the engine is off and the captured frame is still queued
C29_Witness ==
    /\ obs.ncalls = 3
    /\ obs.stop_rec = 2
    /\ obs.nframes = 1
    /\ ~recording
    /\ ~input_stream
    /\ Len(input_queue) = 1

\* C30: an event of a status-only or unknown type changes none of
\* connected, conversation_active, conversation_ending, response_finished,
\* the capture queue, the playback queue and accumulator, recording,
\* playing and the two streams.
C30_StatusEventsChangeNothing ==
    [][OnStatusEvent =>
          UNCHANGED <<clientVars, captureVars, playVars, streams>>]_vars

\* C30 witness: in a running turn with a captured frame queued, one audio
\* event and one status event have been delivered and the decoded chunk is
\* still queued, no callback of the output stream having run
C30_Witness ==
    /\ obs.nevents = 2
    /\ obs.ncb = 0
    /\ conversation_active
    /\ recording
    /\ playing
    /\ Len(input_queue) = 1
    /\ Len(output_queue) = 1

\* no call of start_conversation, cancel_conversation or _end_conversation
\* is under way (a Timer that has not fired is not a call)
Quiescent ==
    \A t \in BagToSet(threads) :
        /\ t.fn \notin {"start_conversation", "cancel_conversation"}
        /\ t.fn = "end_conversation" => t.pc = "timer"

\* C31: in every quiescent state without an active turn the capture is not
\* recording and the playback is not playing.
C31_EnginesOffOutsideTurn ==
    (Quiescent /\ ~conversation_active) => (~recording /\ ~playing)

\* C32: when the link has closed while a turn is active, the turn
\* eventually ends: conversation_active becomes False and the capture and
\* the playback are stopped.
C32_DropEndsTurn ==
    (link = "closed" /\ conversation_active)
        ~> (~conversation_active /\ ~recording /\ ~playing)

Loops(bag) ==
    LET IsLoop(t) == t.fn = "send_audio_loop" IN NumThreads(bag, IsLoop)

\* C33: at most one _send_audio_loop thread is running at any time.
C33_OneSendLoop == Loops(threads) <= 1

\* C34: a press of the voice hotkey made while a turn is active starts no
\* _handle_conversation thread, so no second start_conversation call.
C34_PressDuringTurnIgnored ==
    [][(conversation_active /\ obs'.npress = obs.npress + 1) =>
          threads' = threads]_vars

\* C35: once connect() has returned False and until it is called again,
\* connected stays False and nothing is sent on the link.
C35_AbandonedLinkStaysUnconnected ==
    [][(obs.rc = "False" /\ Running("connect") = {}) =>
          (~connected' /\ sent' = sent)]_vars

\* C36: while the link stays open, connected is not cleared.
C36_ConnectedTracksCurrentLink ==
    [][(link = "open" /\ link' = "open" /\ connected) => connected']_vars

\* C37: the _end_conversation that the Timer(2.0) of an error reported
\* while no turn was active calls changes neither conversation_active nor
\* conversation_ending.
C37_IdleErrorHasNoEffect ==
    [][\A t \in At("end_conversation", "flags") :
          (/\ t.via = "error"
           /\ t.issued = 0
           /\ threads' = Move(threads, t, [t EXCEPT !.pc = "stoprec"])) =>
              UNCHANGED <<conversation_active, conversation_ending>>]_vars

\* the stored list has at most max_messages entries, none of them too old
\* at the time of the last call (too old as the cleanup counts it: not
\* younger than max_age_seconds), and it is the last max_messages of the
\* messages added since the last clear_memory that are not too old at that
\* time, in the order they were added
MemoryBounded ==
    LET surviving == SelectSeq(added, LAMBDA msg : Recent(msg, now))
    IN  /\ Len(messages) <= max_messages
        /\ \A i \in 1..Len(messages) : Recent(messages[i], now)
        /\ messages = IF Len(surviving) > max_messages
                      THEN LastOf(surviving, max_messages)
                      ELSE surviving

\* C38 (as claimed): after any sequence of add_message,
\* get_recent_messages and clear_memory calls the stored list is bounded
\* in length and in age and is the most recent surviving messages in
\* insertion order; an add_message with a blank content changes nothing.
C38_MemoryBound ==
    /\ []MemoryBounded
    /\ [][obs'.blank => UNCHANGED messages]_vars

\* C38 (amended): the same after every call except an add_message with a
\* blank content, which changes nothing and so leaves in the list the
\* messages that have become too old since the call before.
C38_MemoryBoundAtCleanup ==
    /\ [](~obs.blank => MemoryBounded)
    /\ [][obs'.blank => UNCHANGED messages]_vars

\* C38 witness: three messages were added at ticks 0, 0 and 1, the third
\* add_message dropping the first of them for the count; a
\* get_recent_messages at tick 2 then dropped the second for its age
C38_Witness ==
    /\ ~obs.blank
    /\ now = 2
    /\ Len(added) = 3
    /\ added[1].timestamp = 0
    /\ added[2].timestamp = 0
    /\ added[3].timestamp = 1
    /\ messages = <<added[3]>>

============================================================================
